---- MODULE Spec2Model ----
(***************************************************************************)
(* KrakenGate: a radio <-> Mumble bridge with a PTT gate.                  *)
(*                                                                         *)
(* remote_trx.py   : the transmit gate (start_tx / stop_tx_after_tail),    *)
(*                   the playback thread (audio_tx_loop.play_loop), the    *)
(*                   status handler (http_status) and the script of the    *)
(*                   control page (ptt and the button / space handlers).   *)
(* mumble_bridge.py: MumbleBridge - two bounded queues, the TX worker that *)
(*                   reframes PCM to the encoder frame size, the ping      *)
(*                   worker and the session callbacks.                     *)
(*                                                                         *)
(* Time is discrete: one tick of `now` is half the tail-hang time.         *)
(* Every `with tx_lock:` block is one atomic action.                       *)
(***************************************************************************)
EXTENDS Integers, Sequences, FiniteSets

(* ------------------------------ bounds -------------------------------- *)
\* last tick of the clock
MaxTime == 5
\* tail-hang threads that may be pending at once
MaxWorkers == 2

\* Queue(maxsize=...) of both audio queues (200 in the source), scaled down
QueueMaxsize == 2
\* send_pcm calls
MaxSends == 4
\* frames the session delivers to _on_sound_received
MaxRecv == 3
\* samples (ndarray) or bytes (bytes) of one send_pcm argument
MaxChunk == 2
\* encoder frame sizes the session may report, in samples
MaxFrameSamples == 2
\* calls of MumbleBridge.stop()
MaxStops == 2
\* ticks of the page's clock after the page was loaded
MaxPageTime == 3
\* POST requests of the page that may be in flight at once
MaxPosts == 2

(* --------------------------- program constants ------------------------ *)
\* TAIL_HANG (0.75 s in the source), in ticks
TAIL_HANG == 2
\* the level reported for silence, current_tx_dbfs = -100.0
FLOOR_DBFS == -100
\* the `None` of last_key_age in the status reply
NoAge == -1
\* the 40 of `if (now - lastSent < 40) return;`, in ticks of the page's clock
\* (one tick of page_now is 20 ms)
RATE_LIMIT == 2

VARIABLES
    now,              \* time.time()
    is_transmitting,  \* remote_trx.is_transmitting: TRUE = KEYED, FALSE = IDLE
    last_key_time,    \* remote_trx.last_key_time, 0 = never keyed (0.0)
    tail_workers,     \* the pending stop_tx_after_tail._worker threads
    play_pc,          \* remote_trx.tx_thread and where its play_loop stands
    stream_open,      \* the sd.OutputStream of play_loop is open
    play_loops,       \* play_loop threads started and not yet returned
    current_tx_dbfs,  \* remote_trx.current_tx_dbfs
    last_write,       \* what play_loop last wrote to the output stream
    rx_q,             \* MumbleBridge._rx_q (link -> radio)
    received,         \* history: the frames get_received() returned, in order
    m_state,          \* the Mumble session: "new", "ready", "rejected"
    stopped,          \* MumbleBridge.stop() has run
    shutdown,         \* MumbleBridge._shutdown (threading.Event)
    tx_q,             \* MumbleBridge._tx_q (radio -> link)
    accum,            \* MumbleBridge._accum
    _frame_bytes,     \* MumbleBridge._frame_bytes, 0 = None
    encoder_framesize,\* sound_output.encoder_framesize in samples, 0 = None
    tx_pc,            \* MumbleBridge._tx_thread and where _tx_worker stands
    ping_pc,          \* MumbleBridge._ping_thread and where _ping_worker stands
    _last_ping_ts,    \* MumbleBridge._last_ping_ts, 0 = None
    _connected,       \* MumbleBridge._connected
    frame_bytes,      \* the local frame_bytes of _tx_worker, -1 = unbound
    sent,             \* the sound_output.add_sound(frame) calls, in order
    pushed,           \* history: every byte appended to _accum, in order
    next_byte,        \* history: the bytes handed to send_pcm so far
    tx_stats,         \* history: put_nowait calls, drop events, gets of _tx_q
    rx_stats,         \* history: put_nowait calls and drop events of _rx_q
    delivered,        \* history: the frames the session delivered to its
                      \* sound callbacks while _rx_q had room, in order
    key_failed,       \* history: the ptt.key() of the current KEYED period raised
    key_balance,      \* history: ptt.key() calls minus ptt.unkey() calls of the gate
    bridge_log,       \* history: what the bridge's lifecycle calls did
    st_pc,            \* where http_status stands
    st_age,           \* the `age` http_status computed
    snapshot,         \* the last reply of http_status
    posts,            \* the page's POST /ptt/on and /ptt/off requests in flight
    down,             \* the page script's `down`
    lastSent,         \* the page script's `lastSent`
    page_now,         \* Date.now() in the page
    mouse_held,       \* the mouse button is held down on the PTT button
    space_held,       \* the space bar is held down
    held_pairs,       \* history: every (state, last_key_time) pair the gate held
    ev                \* history: the operation that produced this state

gateVars == <<now, is_transmitting, last_key_time, tail_workers, key_failed,
              key_balance, posts>>
playVars == <<play_pc, stream_open, play_loops, current_tx_dbfs, last_write>>
pageVars == <<down, lastSent, page_now, mouse_held, space_held>>
statusVars == <<st_pc, st_age, snapshot, pageVars>>
rxVars == <<rx_q, received, rx_stats, delivered>>
pingVars == <<ping_pc, _last_ping_ts, _connected, bridge_log>>
bridgeVars == <<m_state, stopped, shutdown, tx_q, accum, _frame_bytes,
                encoder_framesize, tx_pc, frame_bytes, sent, pushed,
                next_byte, tx_stats, pingVars>>
vars == <<now, is_transmitting, last_key_time, tail_workers, play_pc,
          stream_open, play_loops, current_tx_dbfs, last_write, st_pc, st_age,
          snapshot, held_pairs, ev, rx_q, received, rx_stats, m_state,
          stopped, shutdown, tx_q, accum, _frame_bytes, encoder_framesize,
          tx_pc, frame_bytes, sent, pushed, next_byte, tx_stats, ping_pc,
          _last_ping_ts, _connected, delivered, key_failed, key_balance,
          bridge_log, posts, down, lastSent, page_now, mouse_held, space_held>>

(* ------------------------------ helpers ------------------------------- *)
\* the record kept in ev; fields an operation does not use keep these values
NoEvent ==
    [op |-> "none", pre_tx |-> FALSE, hw |-> "none", raised |-> FALSE,
     escaped |-> FALSE, sched |-> 0, rekeyed |-> FALSE, spawned |-> FALSE,
     frame |-> FALSE, writes |-> 0, level_set |-> FALSE,
     release |-> FALSE, post |-> "none"]

RemoveAt(s, i) == SubSeq(s, 1, i - 1) \o SubSeq(s, i + 1, Len(s))

Range(s) == {s[i] : i \in 1..Len(s)}

\* tx_thread.is_alive(): started and play_loop has not returned
ThreadAlive(pc) == pc \in {"open", "check", "get", "closing"}

(* ------------------------- PTT state machine -------------------------- *)
\* try: ptt.key() / ptt.unkey()  except Exception: logging.error(...)
\* (mutation: no except clause, the exception leaves the handler)
TryHwEscapes(raises) == IF raises THEN "raised" ELSE "ok"
TryHw(raises) == IF raises THEN "logged" ELSE "ok"

\* `if not is_transmitting:` of start_tx
\* (mutation: the state test is missing)
NeedsKeyAlways(tx) == TRUE
NeedsKey(tx) == ~tx

\* `if tx_thread and tx_thread.is_alive(): return` of audio_tx_loop: TRUE when
\* the call goes on to start a thread
\* (mutation: the check is missing)
StartsThreadAlways(pc) == TRUE
StartsThread(pc) == ~ThreadAlive(pc)

\* audio_tx_loop(): the thread check, then Thread(target=play_loop).start()
audio_tx_loop(pc) == IF StartsThread(pc) THEN "open" ELSE pc

\* http_ptt_on / http_ptt_off: the call answers the page's oldest request in
\* flight when that is a request for this route, and another client's
\* request otherwise
Served(q, route) == IF q # <<>> /\ Head(q) = route THEN Tail(q) ELSE q

\* a key request marks the tail-hang threads that were scheduled earlier
MarkRekeyed(ws) ==
    [i \in 1..Len(ws) |->
        IF ws[i].sched < now THEN [ws[i] EXCEPT !.rekeyed = TRUE] ELSE ws[i]]

start_tx(raises) ==
    LET keying == NeedsKey(is_transmitting)
        res == IF keying THEN TryHw(raises) ELSE "ok"
        starts == keying /\ res # "raised" /\ StartsThread(play_pc)
    IN  /\ IF res = "raised"
             THEN UNCHANGED <<is_transmitting, last_key_time, play_pc,
                              key_failed>>
             ELSE /\ is_transmitting' = TRUE
                  /\ key_failed' = IF keying THEN raises ELSE key_failed
                  /\ play_pc' = IF keying THEN audio_tx_loop(play_pc) ELSE play_pc
                  /\ last_key_time' = now
        /\ play_loops' = IF starts THEN play_loops + 1 ELSE play_loops
        /\ posts' = Served(posts, "on")
        /\ key_balance' = IF keying THEN key_balance + 1 ELSE key_balance
        /\ tail_workers' = MarkRekeyed(tail_workers)
        /\ held_pairs' = held_pairs \cup {<<is_transmitting', last_key_time'>>}
        /\ ev' = [NoEvent EXCEPT !.op = "start_tx",
                                 !.pre_tx = is_transmitting,
                                 !.hw = IF keying THEN "key" ELSE "none",
                                 !.raised = keying /\ raises,
                                 !.escaped = (res = "raised"),
                                 !.spawned = starts]
        /\ UNCHANGED <<now, stream_open, current_tx_dbfs, last_write, rxVars, bridgeVars,
                       statusVars>>

\* threading.Thread(target=_worker).start(): the thread sleeps from now on
stop_tx_after_tail ==
    /\ Len(tail_workers) < MaxWorkers
    /\ tail_workers' = Append(tail_workers, [sched |-> now, rekeyed |-> FALSE])
    /\ posts' = Served(posts, "off")
    /\ ev' = [NoEvent EXCEPT !.op = "stop_tx_after_tail",
                             !.pre_tx = is_transmitting, !.sched = now]
    /\ UNCHANGED <<now, is_transmitting, last_key_time, key_failed, key_balance,
                   playVars,
                   rxVars, bridgeVars, statusVars, held_pairs>>

\* time.sleep(TAIL_HANG) has returned: it sleeps at least TAIL_HANG
SleepDone(w) == now >= w.sched + TAIL_HANG

\* `is_transmitting and (time.time() - last_key_time) >= TAIL_HANG`
\* (mutation: the last_key_time test is missing)
TailExpiredNoKeyCheck(tx, t, lkt) == tx
\* (mutation: the is_transmitting test is missing)
TailExpiredNoStateCheck(tx, t, lkt) == (t - lkt) >= TAIL_HANG
\* (mutation: > for >=)
TailExpiredStrict(tx, t, lkt) == tx /\ (t - lkt) > TAIL_HANG
TailExpired(tx, t, lkt) == tx /\ (t - lkt) >= TAIL_HANG

\* the body of _worker after the sleep, under tx_lock
_worker(i, raises) ==
    LET w == tail_workers[i]
        fire == TailExpired(is_transmitting, now, last_key_time)
        res == IF fire THEN TryHw(raises) ELSE "ok"
    IN  /\ SleepDone(w)
        /\ is_transmitting' =
              IF fire /\ res # "raised" THEN FALSE ELSE is_transmitting
        /\ key_failed' = IF fire /\ res # "raised" THEN FALSE ELSE key_failed
        /\ key_balance' = IF fire THEN key_balance - 1 ELSE key_balance
        /\ tail_workers' = RemoveAt(tail_workers, i)
        /\ held_pairs' = held_pairs \cup {<<is_transmitting', last_key_time>>}
        /\ ev' = [NoEvent EXCEPT !.op = "_worker",
                                 !.pre_tx = is_transmitting,
                                 !.hw = IF fire THEN "unkey" ELSE "none",
                                 !.raised = fire /\ raises,
                                 !.escaped = (res = "raised"),
                                 !.sched = w.sched,
                                 !.rekeyed = w.rekeyed]
        /\ UNCHANGED <<now, last_key_time, posts, playVars, rxVars, bridgeVars,
                       statusVars>>

Tick ==
    /\ now < MaxTime
    /\ now' = now + 1
    /\ ev' = [NoEvent EXCEPT !.op = "tick"]
    /\ UNCHANGED <<is_transmitting, last_key_time, tail_workers, key_failed,
                   key_balance, posts,
                   playVars, rxVars, bridgeVars, statusVars, held_pairs>>

(* --------------------------- playback thread -------------------------- *)
\* play_loop: stream = sd.OutputStream(...); stream.start()
PlayOpen ==
    /\ play_pc = "open"
    /\ stream_open' = TRUE
    /\ play_pc' = "check"
    /\ ev' = [NoEvent EXCEPT !.op = "play_open"]
    /\ UNCHANGED <<gateVars, play_loops, current_tx_dbfs, last_write, rxVars, bridgeVars, statusVars,
                   held_pairs>>

\* play_loop: with tx_lock: tx_active = is_transmitting; if not: break
PlayCheck ==
    /\ play_pc = "check"
    /\ play_pc' = IF is_transmitting THEN "get" ELSE "closing"
    /\ ev' = [NoEvent EXCEPT !.op = "play_check", !.pre_tx = is_transmitting]
    /\ UNCHANGED <<gateVars, stream_open, play_loops, current_tx_dbfs, last_write,
                   rxVars, bridgeVars, statusVars, held_pairs>>

\* MumbleBridge.get_received(timeout): the oldest frame, or None on timeout
get_received(q) == IF q = <<>> THEN <<>> ELSE Head(q)

\* play_loop, lines 116-122: what one output period does with the result of
\* get_received.  With a frame: stream.write(frame), then
\* `_dbfs_from_int16(audio.reshape(-1))` names the undefined `audio`: the
\* NameError comes before current_tx_dbfs is assigned.  Without: the floor
\* level, then stream.write(silence).
\* (mutation: nothing is written when no frame came)
OutputPeriodNoFill(pcm_bytes, level) ==
    IF pcm_bytes # <<>>
      THEN [write |-> "frame", writes |-> 1, level |-> level,
            level_set |-> FALSE, raised |-> TRUE]
      ELSE [write |-> "none", writes |-> 0, level |-> FLOOR_DBFS,
            level_set |-> TRUE, raised |-> FALSE]
OutputPeriod(pcm_bytes, level) ==
    IF pcm_bytes # <<>>
      THEN [write |-> "frame", writes |-> 1, level |-> level,
            level_set |-> FALSE, raised |-> TRUE]
      ELSE [write |-> "silence", writes |-> 1, level |-> FLOOR_DBFS,
            level_set |-> TRUE, raised |-> FALSE]

\* play_loop: one output period.  An exception leaves the loop through
\* `finally`.
PlayGet ==
    /\ play_pc = "get"
    /\ LET pcm_bytes == get_received(rx_q)
           out == OutputPeriod(pcm_bytes, current_tx_dbfs)
       IN  /\ IF pcm_bytes # <<>>
                THEN /\ rx_q' = Tail(rx_q)
                     /\ received' = Append(received, pcm_bytes)
                ELSE UNCHANGED <<rx_q, received>>
           /\ last_write' = IF out.writes > 0 THEN out.write ELSE last_write
           /\ current_tx_dbfs' = out.level
           /\ play_pc' = IF out.raised THEN "closing" ELSE "check"
           /\ ev' = [NoEvent EXCEPT !.op = "play_get",
                                    !.frame = pcm_bytes # <<>>,
                                    !.writes = out.writes,
                                    !.level_set = out.level_set,
                                    !.escaped = out.raised]
    /\ UNCHANGED <<gateVars, stream_open, play_loops, statusVars, held_pairs, rx_stats,
                   delivered, bridgeVars>>

\* play_loop: finally: stream.stop(); stream.close(); the thread ends
PlayClose ==
    /\ play_pc = "closing"
    /\ stream_open' = FALSE
    /\ play_pc' = "done"
    /\ play_loops' = play_loops - 1
    /\ ev' = [NoEvent EXCEPT !.op = "play_close", !.pre_tx = is_transmitting]
    /\ UNCHANGED <<gateVars, current_tx_dbfs, last_write, rxVars, bridgeVars, statusVars,
                   held_pairs>>

(* ----------------------------- http_status ---------------------------- *)
\* age = time.time() - last_key_time if last_key_time else None  (no lock)
AgeOf(t, lkt) == IF lkt # 0 THEN t - lkt ELSE NoAge

StatusReadAge ==
    /\ st_pc = "idle"
    /\ st_age' = AgeOf(now, last_key_time)
    /\ st_pc' = "age_read"
    /\ ev' = [NoEvent EXCEPT !.op = "status_age"]
    /\ UNCHANGED <<gateVars, playVars, rxVars, bridgeVars, snapshot, held_pairs,
                   pageVars>>

\* with tx_lock: tx = is_transmitting; return jsonify({...})
StatusReadTx ==
    /\ st_pc = "age_read"
    /\ snapshot' = [valid |-> TRUE, tx |-> is_transmitting,
                    last_key_age |-> st_age]
    /\ st_pc' = "idle"
    /\ st_age' = NoAge
    /\ ev' = [NoEvent EXCEPT !.op = "status_reply"]
    /\ UNCHANGED <<gateVars, playVars, rxVars, bridgeVars, held_pairs, pageVars>>

(* --------------------- the control page's script --------------------- *)
\* `if (now - lastSent < 40) return;` of ptt(on)
RateLimited(t, last) == (t - last) < RATE_LIMIT

\* what ptt(on) puts on the wire: '/ptt/on' or '/ptt/off', or nothing
PostOf(on) ==
    IF RateLimited(page_now, lastSent) THEN "none"
    ELSE IF on THEN "on" ELSE "off"

\* async function ptt(on): the rate limit, lastSent = now, fetch(..., POST)
ptt(on) ==
    IF RateLimited(page_now, lastSent)
      THEN UNCHANGED <<lastSent, posts>>
      ELSE /\ Len(posts) < MaxPosts
           /\ lastSent' = page_now
           /\ posts' = Append(posts, PostOf(on))

\* the state of the gate is not touched by the page itself
PageFrame ==
    UNCHANGED <<now, is_transmitting, last_key_time, tail_workers, key_failed,
                key_balance, playVars, rxVars, bridgeVars, st_pc, st_age,
                snapshot, held_pairs>>

\* btn 'mousedown': down = true; ptt(true)
MouseDown ==
    /\ ~mouse_held
    /\ mouse_held' = TRUE
    /\ down' = TRUE
    /\ ptt(TRUE)
    /\ ev' = [NoEvent EXCEPT !.op = "mousedown", !.post = PostOf(TRUE)]
    /\ PageFrame /\ UNCHANGED <<page_now, space_held>>

\* btn 'mouseup': down = false; ptt(false)
MouseUp ==
    /\ mouse_held
    /\ mouse_held' = FALSE
    /\ down' = FALSE
    /\ ptt(FALSE)
    /\ ev' = [NoEvent EXCEPT !.op = "mouseup", !.release = TRUE,
                             !.post = PostOf(FALSE)]
    /\ PageFrame /\ UNCHANGED <<page_now, space_held>>

\* btn 'mouseleave': if (down) { down = false; ptt(false); }
\* A button held while the pointer leaves is released outside the button,
\* where no 'mouseup' of btn follows.
MouseLeave ==
    /\ mouse_held' = FALSE
    /\ IF down
         THEN /\ down' = FALSE
              /\ ptt(FALSE)
         ELSE UNCHANGED <<down, lastSent, posts>>
    /\ ev' = [NoEvent EXCEPT !.op = "mouseleave", !.release = down,
                             !.post = IF down THEN PostOf(FALSE) ELSE "none"]
    /\ PageFrame /\ UNCHANGED <<page_now, space_held>>

\* window 'keydown', Space (also the key's auto-repeat):
\* if (!down) { down = true; ptt(true); }
KeyDown ==
    /\ space_held' = TRUE
    /\ IF ~down
         THEN /\ down' = TRUE
              /\ ptt(TRUE)
         ELSE UNCHANGED <<down, lastSent, posts>>
    /\ ev' = [NoEvent EXCEPT !.op = "keydown",
                             !.post = IF ~down THEN PostOf(TRUE) ELSE "none"]
    /\ PageFrame /\ UNCHANGED <<page_now, mouse_held>>

\* window 'keyup', Space: if (down) { down = false; ptt(false); }
KeyUp ==
    /\ space_held
    /\ space_held' = FALSE
    /\ IF down
         THEN /\ down' = FALSE
              /\ ptt(FALSE)
         ELSE UNCHANGED <<down, lastSent, posts>>
    /\ ev' = [NoEvent EXCEPT !.op = "keyup", !.release = down,
                             !.post = IF down THEN PostOf(FALSE) ELSE "none"]
    /\ PageFrame /\ UNCHANGED <<page_now, mouse_held>>

\* Date.now() advances
PageTick ==
    /\ page_now < RATE_LIMIT + MaxPageTime
    /\ page_now' = page_now + 1
    /\ ev' = [NoEvent EXCEPT !.op = "page_tick"]
    /\ PageFrame /\ UNCHANGED <<posts, down, lastSent, mouse_held, space_held>>

(* ============================ MumbleBridge ============================ *)
\* Queue.put_nowait: queue.Full when the queue holds maxsize items
\* (mutation: an unbounded queue)
put_nowait_unbounded(q, item) == [q |-> Append(q, item), full |-> FALSE]
\* (mutation: a full queue makes room by dropping its oldest item)
put_nowait_drop_oldest(q, item) ==
    IF Len(q) >= QueueMaxsize
      THEN [q |-> Append(Tail(q), item), full |-> TRUE]
      ELSE [q |-> Append(q, item), full |-> FALSE]
put_nowait(q, item) ==
    IF Len(q) >= QueueMaxsize
      THEN [q |-> q, full |-> TRUE]
      ELSE [q |-> Append(q, item), full |-> FALSE]

\* the bytes of one send_pcm argument: numbered in the order they are handed in
Bytes(first, n) == [i \in 1..n |-> first + i]

\* pcm.reshape(-1).tobytes() of an int16 array of n samples / bytes as given
BufLen(kind, n) == IF kind = "ndarray" THEN 2 * n ELSE n

\* start(): `except errors.ConnectionRejectedError: logging.error(...); raise`
\* (mutation: the `raise` is missing, start() goes on after a rejection)
ReRaiseMissing(rejected) == FALSE
ReRaise(rejected) == rejected

\* start(): `if self._channel:` find_by_name, then move_in() or a warning;
\* chan is "unset" (no channel configured), "missing" or "found"
JoinChannel(chan) ==
    CASE chan = "unset" -> "none"
      [] chan = "missing" -> "not_found"
      [] chan = "found" -> "joined"

\* MumbleBridge.start(): connect, wait ready (or ConnectionRejectedError,
\* re-raised), join the channel, then clear _shutdown and start the TX and
\* ping workers
Start(rejected, chan) ==
    /\ m_state = "new"
    /\ m_state' = IF rejected THEN "rejected" ELSE "ready"
    /\ IF ReRaise(rejected)
         THEN /\ bridge_log' = [bridge_log EXCEPT !.start = "raised"]
              /\ UNCHANGED <<shutdown, tx_pc, ping_pc>>
         ELSE /\ bridge_log' = [bridge_log EXCEPT !.start = "returned",
                                                  !.join = JoinChannel(chan),
                                                  !.spawned = @ + 1]
              /\ shutdown' = FALSE
              /\ tx_pc' = "top"
              /\ ping_pc' = "top"
    /\ UNCHANGED <<_last_ping_ts, _connected>>
    /\ UNCHANGED <<gateVars, playVars, statusVars, held_pairs, ev, rxVars,
                   stopped, tx_q, accum, _frame_bytes, encoder_framesize,
                   frame_bytes, sent, pushed, next_byte, tx_stats>>

\* stop(): try: self._m.stop()  except Exception: pass
\* (mutation: no except clause, the exception leaves stop())
TryReleaseEscapes(raises) == IF raises THEN "raised" ELSE "ok"
TryRelease(raises) == IF raises THEN "swallowed" ELSE "ok"

\* MumbleBridge.stop(): _shutdown.set(); join(timeout=...) of each worker
\* that exists and is alive (the join returns at its timeout whether or not
\* the worker has ended, so stop() does not depend on tx_pc / ping_pc);
\* self._m.stop().  `waited` records the workers stop() found alive.
Stop(raises) ==
    /\ bridge_log.stops < MaxStops
    /\ shutdown' = TRUE
    /\ stopped' = TRUE
    /\ bridge_log' = [bridge_log EXCEPT
                        !.stops = @ + 1,
                        !.waited = {w \in {"tx", "ping"} :
                                      \/ w = "tx" /\ tx_pc \in {"top", "get", "flush"}
                                      \/ w = "ping" /\ ping_pc \in {"top", "ping", "wait"}},
                        !.released = @ + 1,
                        !.escaped = @ \/ TryRelease(raises) = "raised"]
    /\ UNCHANGED <<gateVars, playVars, statusVars, held_pairs, ev, rxVars,
                   m_state, tx_q, accum, _frame_bytes, encoder_framesize,
                   tx_pc, frame_bytes, sent, pushed, next_byte, tx_stats,
                   ping_pc, _last_ping_ts, _connected>>

\* main(): the one mumble_bridge.stop() of the program, after start()
StopAfterStart ==
    /\ m_state # "new"
    /\ ~stopped
    /\ \E raises \in BOOLEAN : Stop(raises)

\* the session's encoder initialises: sound_output.encoder_framesize is set
EncoderReady(efs) ==
    /\ m_state = "ready"
    /\ encoder_framesize = 0
    /\ encoder_framesize' = efs
    /\ UNCHANGED <<gateVars, playVars, statusVars, held_pairs, ev, rxVars,
                   m_state, stopped, shutdown, tx_q, accum, _frame_bytes,
                   tx_pc, frame_bytes, sent, pushed, next_byte, tx_stats,
                   pingVars>>

\* MumbleBridge.send_pcm(pcm): ndarray -> bytes, bytes as is, anything else
\* returns; put_nowait, queue.Full is logged ("dropping frame")
send_pcm(kind, n) ==
    /\ m_state = "ready"
    /\ tx_stats.enq + tx_stats.other < MaxSends
    /\ IF kind = "other"
         THEN /\ tx_stats' = [tx_stats EXCEPT !.other = @ + 1]
              /\ UNCHANGED <<tx_q, next_byte>>
         ELSE LET buf == Bytes(next_byte, BufLen(kind, n))
                  r == put_nowait(tx_q, buf)
              IN  /\ tx_q' = r.q
                  /\ next_byte' = next_byte + Len(buf)
                  /\ tx_stats' = [tx_stats EXCEPT
                                    !.enq = @ + 1,
                                    !.drops = IF r.full THEN @ + 1 ELSE @,
                                    !.lost = IF r.full THEN @ \cup Range(buf)
                                                       ELSE @]
    /\ UNCHANGED <<gateVars, playVars, statusVars, held_pairs, ev, rxVars,
                   m_state, stopped, shutdown, accum, _frame_bytes,
                   encoder_framesize, tx_pc, frame_bytes, sent, pushed, pingVars>>

\* MumbleBridge._on_sound_received(user, soundchunk): put_nowait of
\* soundchunk.pcm, queue.Full is logged ("dropping frame")
_on_sound_received ==
    /\ m_state = "ready"
    /\ rx_stats.enq < MaxRecv
    /\ LET r == put_nowait(rx_q, <<rx_stats.enq + 1>>)
       IN  /\ rx_q' = r.q
           /\ rx_stats' = [rx_stats EXCEPT
                             !.enq = @ + 1,
                             !.drops = IF r.full THEN @ + 1 ELSE @,
                             !.lost = IF r.full THEN @ \cup {rx_stats.enq + 1}
                                                ELSE @]
    /\ UNCHANGED <<gateVars, playVars, statusVars, held_pairs, ev, received,
                   delivered, bridgeVars>>

\* the callbacks __init__ registers with self._m.callbacks.set_callback
Callbacks == {"connected", "disconnected"}

\* the session has received a frame of remote audio: it calls the callback
\* registered for "sound_received", if there is one.  The frames the session
\* delivers are numbered -1, -2, ... (those handed to _on_sound_received
\* directly are 1, 2, ...).
SoundReceived ==
    /\ m_state = "ready"
    /\ Len(delivered) < MaxRecv
    /\ LET pcm == <<0 - (Len(delivered) + 1)>>
           r == put_nowait(rx_q, pcm)
       IN  /\ delivered' = IF Len(rx_q) < QueueMaxsize
                              THEN Append(delivered, pcm) ELSE delivered
           /\ IF "sound_received" \in Callbacks
                THEN /\ rx_q' = r.q
                     /\ rx_stats' = [rx_stats EXCEPT
                                       !.enq = @ + 1,
                                       !.drops = IF r.full THEN @ + 1 ELSE @]
                ELSE UNCHANGED <<rx_q, rx_stats>>
    /\ UNCHANGED <<gateVars, playVars, statusVars, held_pairs, ev, received,
                   bridgeVars>>

\* a caller of MumbleBridge.get_received(timeout) that gets a frame
Receive ==
    /\ get_received(rx_q) # <<>>
    /\ received' = Append(received, get_received(rx_q))
    /\ rx_q' = Tail(rx_q)
    /\ UNCHANGED <<gateVars, playVars, statusVars, held_pairs, ev, rx_stats,
                   delivered, bridgeVars>>

\* bytes per frame = encoder_framesize (as samples) * bytes_per_sample(2) * channels(1)
FrameBytes(efs) == efs * 2 * 1

\* MumbleBridge._compute_frame_bytes_if_ready(): the new self._frame_bytes,
\* which is also what it returns
\* (mutation: a default frame size while the encoder is not ready)
_compute_frame_bytes_default(fb, efs) ==
    IF fb # 0 THEN fb ELSE IF efs # 0 THEN FrameBytes(efs) ELSE 2
_compute_frame_bytes_if_ready(fb, efs) ==
    IF fb # 0 THEN fb ELSE IF efs # 0 THEN FrameBytes(efs) ELSE fb

\* _tx_worker: `while not self._shutdown.is_set():`
TxTop ==
    /\ tx_pc = "top"
    /\ tx_pc' = IF shutdown THEN "flush" ELSE "get"
    /\ UNCHANGED <<gateVars, playVars, statusVars, held_pairs, ev, rxVars,
                   m_state, stopped, shutdown, tx_q, accum, _frame_bytes,
                   encoder_framesize, frame_bytes, sent, pushed, next_byte,
                   tx_stats, pingVars>>

\* _tx_worker: chunk = self._tx_q.get(timeout=0.1); on queue.Empty continue;
\* else extend _accum, compute the frame size, and loop (the `continue` and
\* the end of the loop body are the same place)
TxGet ==
    /\ tx_pc = "get"
    /\ tx_pc' = "top"
    /\ IF tx_q = <<>>
         THEN UNCHANGED <<tx_q, accum, pushed, _frame_bytes, frame_bytes,
                          tx_stats>>
         ELSE LET chunk == Head(tx_q)
                  fb == _compute_frame_bytes_if_ready(_frame_bytes,
                                                      encoder_framesize)
              IN  /\ tx_q' = Tail(tx_q)
                  /\ accum' = accum \o chunk
                  /\ pushed' = pushed \o chunk
                  /\ _frame_bytes' = fb
                  /\ frame_bytes' = fb
                  /\ tx_stats' = [tx_stats EXCEPT !.deq = @ + 1]
    /\ UNCHANGED <<gateVars, playVars, statusVars, held_pairs, ev, rxVars,
                   m_state, stopped, shutdown, encoder_framesize, sent,
                   next_byte, pingVars>>

\* frame = self._accum[:frame_bytes]
TakeFrame(acc, n) == SubSeq(acc, 1, n)

\* del self._accum[:frame_bytes]
\* (mutation: the slice deleted is one byte short)
DelFrameShort(acc, n) == SubSeq(acc, n, Len(acc))
DelFrame(acc, n) == SubSeq(acc, n + 1, Len(acc))

\* _tx_worker after its `while not shutdown` loop:
\* `while len(self._accum) >= frame_bytes:` take a frame, add_sound(frame)
\* (a raising add_sound is logged and the loop goes on: the call is recorded
\* either way).  frame_bytes unbound (no chunk was ever
\* dequeued) is an UnboundLocalError, frame_bytes None a TypeError.
TxFlush ==
    /\ tx_pc = "flush"
    /\ IF frame_bytes <= 0
         THEN /\ tx_pc' = "crashed"
              /\ UNCHANGED <<accum, sent>>
         ELSE IF Len(accum) >= frame_bytes
           THEN /\ sent' = Append(sent, TakeFrame(accum, frame_bytes))
                /\ accum' = DelFrame(accum, frame_bytes)
                /\ UNCHANGED tx_pc
           ELSE /\ tx_pc' = "exited"
                /\ UNCHANGED <<accum, sent>>
    /\ UNCHANGED <<gateVars, playVars, statusVars, held_pairs, ev, rxVars,
                   m_state, stopped, shutdown, tx_q, _frame_bytes,
                   encoder_framesize, frame_bytes, pushed, next_byte,
                   tx_stats, pingVars>>

TxWorker == TxTop \/ TxGet \/ TxFlush

\* _ping_worker: `while not self._shutdown.is_set():`
PingTop ==
    /\ ping_pc = "top"
    /\ ping_pc' = IF shutdown THEN "exited" ELSE "ping"
    /\ UNCHANGED <<gateVars, playVars, statusVars, held_pairs, ev, rxVars,
                   m_state, stopped, shutdown, tx_q, accum, _frame_bytes,
                   encoder_framesize, tx_pc, frame_bytes, sent, pushed,
                   next_byte, tx_stats, _last_ping_ts, _connected,
                   bridge_log>>

\* _ping_worker: try: self._m.ping(); ...  except Exception: logging.warning
\* (mutation: no except clause, the exception ends the thread)
TryPingEscapes(raises) == IF raises THEN "raised" ELSE "ok"
TryPing(raises) == IF raises THEN "failed" ELSE "ok"

\* _ping_worker: try: self._m.ping(); self._last_ping_ts = time.time()
\* except Exception: logging.warning(...)
Ping(raises) ==
    LET res == TryPing(raises)
    IN  /\ ping_pc = "ping"
        /\ ping_pc' = IF res = "raised" THEN "crashed" ELSE "wait"
        /\ _last_ping_ts' = IF raises THEN _last_ping_ts ELSE now
        /\ bridge_log' = [bridge_log EXCEPT
                            !.ping = IF raises THEN "failed" ELSE "ok",
                            !.failed = @ \/ raises]
        /\ UNCHANGED <<gateVars, playVars, statusVars, held_pairs, ev, rxVars,
                       m_state, stopped, shutdown, tx_q, accum, _frame_bytes,
                       encoder_framesize, tx_pc, frame_bytes, sent, pushed,
                       next_byte, tx_stats, _connected>>

\* _ping_worker: self._shutdown.wait(self._ping_interval) returns
PingWait ==
    /\ ping_pc = "wait"
    /\ ping_pc' = "top"
    /\ UNCHANGED <<gateVars, playVars, statusVars, held_pairs, ev, rxVars,
                   m_state, stopped, shutdown, tx_q, accum, _frame_bytes,
                   encoder_framesize, tx_pc, frame_bytes, sent, pushed,
                   next_byte, tx_stats, _last_ping_ts, _connected,
                   bridge_log>>

\* the value the lifecycle callbacks give self._connected
\* (mutation: the "disconnected" callback does not clear the flag)
ConnectedFlagSticky(kind, cur) == cur \/ kind = "connected"
ConnectedFlag(kind, cur) == kind = "connected"

\* the session's lifecycle callbacks
_on_connected ==
    /\ m_state = "ready"
    /\ _connected' = ConnectedFlag("connected", _connected)
    /\ bridge_log' = [bridge_log EXCEPT !.notice = "connected"]
    /\ UNCHANGED <<gateVars, playVars, statusVars, held_pairs, ev, rxVars,
                   m_state, stopped, shutdown, tx_q, accum, _frame_bytes,
                   encoder_framesize, tx_pc, frame_bytes, sent, pushed,
                   next_byte, tx_stats, ping_pc, _last_ping_ts>>

_on_disconnected ==
    /\ m_state = "ready"
    /\ _connected' = ConnectedFlag("disconnected", _connected)
    /\ bridge_log' = [bridge_log EXCEPT !.notice = "disconnected",
                                        !.dropped = TRUE]
    /\ UNCHANGED <<gateVars, playVars, statusVars, held_pairs, ev, rxVars,
                   m_state, stopped, shutdown, tx_q, accum, _frame_bytes,
                   encoder_framesize, tx_pc, frame_bytes, sent, pushed,
                   next_byte, tx_stats, ping_pc, _last_ping_ts>>

\* bridge_log before start()
NoBridgeLog ==
    [start |-> "none", join |-> "none", spawned |-> 0, stops |-> 0,
     waited |-> {}, released |-> 0, escaped |-> FALSE, notice |-> "none",
     dropped |-> FALSE, ping |-> "none", failed |-> FALSE,
     main |-> "serving"]

\* the state after MumbleBridge.__init__
BridgeInit ==
    /\ now = 1
    /\ is_transmitting = FALSE
    /\ last_key_time = 0
    /\ tail_workers = <<>>
    /\ play_pc = "none"
    /\ play_loops = 0
    /\ stream_open = FALSE
    /\ current_tx_dbfs = FLOOR_DBFS
    /\ last_write = "none"
    /\ rx_q = <<>>
    /\ st_pc = "idle"
    /\ st_age = NoAge
    /\ posts = <<>>
    /\ down = FALSE
    /\ lastSent = 0
    /\ page_now = RATE_LIMIT
    /\ mouse_held = FALSE
    /\ space_held = FALSE
    /\ snapshot = [valid |-> FALSE, tx |-> FALSE, last_key_age |-> NoAge]
    /\ held_pairs = {<<FALSE, 0>>}
    /\ ev = [NoEvent EXCEPT !.op = "init"]
    /\ received = <<>>
    /\ rx_stats = [enq |-> 0, drops |-> 0, lost |-> {}]
    /\ delivered = <<>>
    /\ key_failed = FALSE
    /\ key_balance = 0
    /\ m_state = "new"
    /\ stopped = FALSE
    /\ shutdown = FALSE
    /\ tx_q = <<>>
    /\ accum = <<>>
    /\ _frame_bytes = 0
    /\ encoder_framesize = 0
    /\ tx_pc = "none"
    /\ ping_pc = "none"
    /\ _last_ping_ts = 0
    /\ _connected = FALSE
    /\ bridge_log = NoBridgeLog
    /\ frame_bytes = -1
    /\ sent = <<>>
    /\ pushed = <<>>
    /\ next_byte = 0
    /\ tx_stats = [enq |-> 0, drops |-> 0, deq |-> 0, other |-> 0, lost |-> {}]

\* the radio -> link path: the bridge's lifecycle, the capture callback
\* calling send_pcm, the encoder and the TX worker.  (The link -> radio queue
\* shares no state with this path; QueueSpec runs both.)
BridgeNext ==
    \/ \E rejected \in BOOLEAN : Start(rejected, "found")
    \/ StopAfterStart
    \/ \E efs \in 1..MaxFrameSamples : EncoderReady(efs)
    \/ \E kind \in {"ndarray", "bytes", "other"} :
          \E n \in 1..MaxChunk : send_pcm(kind, n)
    \/ TxTop
    \/ TxGet
    \/ TxFlush

BridgeSpec == BridgeInit /\ [][BridgeNext]_vars

\* the TX worker thread is scheduled again and again
FairBridgeSpec == BridgeSpec /\ WF_vars(TxWorker)

\* both audio queues with their producers and consumers; every radio chunk
\* is one sample long here, the queues only count them
QueueNext ==
    \/ \E rejected \in BOOLEAN : Start(rejected, "found")
    \/ StopAfterStart
    \/ \E kind \in {"ndarray", "bytes", "other"} : send_pcm(kind, 1)
    \/ _on_sound_received
    \/ Receive
    \/ TxTop
    \/ TxGet
    \/ TxFlush

QueueSpec == BridgeInit /\ [][QueueNext]_vars

\* the link -> radio direction: the session delivering remote audio,
\* _on_sound_received called directly, a caller of get_received, and the
\* keepalive thread that start() leaves running beside them
RxNext ==
    \/ \E rejected \in BOOLEAN : Start(rejected, "found")
    \/ StopAfterStart
    \/ SoundReceived
    \/ _on_sound_received
    \/ Receive
    \/ PingTop
    \/ \E raises \in BOOLEAN : Ping(raises)
    \/ PingWait

RxSpec == BridgeInit /\ [][RxNext]_vars

\* the session's lifecycle: start() and stop() called in any order, the
\* connection callbacks, the keepalive thread and the TX worker (its queue
\* stays empty here), with the clock
SessionNext ==
    \/ \E rejected \in BOOLEAN :
          \E chan \in {"unset", "missing", "found"} : Start(rejected, chan)
    \/ \E raises \in BOOLEAN : Stop(raises)
    \/ _on_connected
    \/ _on_disconnected
    \/ PingTop
    \/ \E raises \in BOOLEAN : Ping(raises)
    \/ PingWait
    \/ TxTop
    \/ TxGet
    \/ TxFlush
    \/ Tick

SessionSpec == BridgeInit /\ [][SessionNext]_vars

(* ------------------------- the remote_trx program --------------------- *)
\* the state once main() has started the bridge and the HTTP server:
\* connect_mumble() returned, the TX worker runs, nothing was keyed yet
Init ==
    /\ now = 1
    /\ is_transmitting = FALSE
    /\ last_key_time = 0
    /\ tail_workers = <<>>
    /\ play_pc = "none"
    /\ play_loops = 0
    /\ stream_open = FALSE
    /\ current_tx_dbfs = FLOOR_DBFS
    /\ last_write = "none"
    /\ rx_q = <<>>
    /\ st_pc = "idle"
    /\ st_age = NoAge
    /\ posts = <<>>
    /\ down = FALSE
    /\ lastSent = 0
    /\ page_now = RATE_LIMIT
    /\ mouse_held = FALSE
    /\ space_held = FALSE
    /\ snapshot = [valid |-> FALSE, tx |-> FALSE, last_key_age |-> NoAge]
    /\ held_pairs = {<<FALSE, 0>>}
    /\ ev = [NoEvent EXCEPT !.op = "init"]
    /\ received = <<>>
    /\ rx_stats = [enq |-> 0, drops |-> 0, lost |-> {}]
    /\ delivered = <<>>
    /\ key_failed = FALSE
    /\ key_balance = 0
    /\ m_state = "ready"
    /\ stopped = FALSE
    /\ shutdown = FALSE
    /\ tx_q = <<>>
    /\ accum = <<>>
    /\ _frame_bytes = 0
    /\ encoder_framesize = 0
    /\ tx_pc = "top"
    /\ ping_pc = "top"
    /\ _last_ping_ts = 0
    /\ _connected = FALSE
    /\ bridge_log = [NoBridgeLog EXCEPT !.start = "returned",
                                        !.join = "joined", !.spawned = 1]
    /\ frame_bytes = -1
    /\ sent = <<>>
    /\ pushed = <<>>
    /\ next_byte = 0
    /\ tx_stats = [enq |-> 0, drops |-> 0, deq |-> 0, other |-> 0, lost |-> {}]

\* the gate, its tail-hang threads and the playback thread.  The source
\* registers only the "connected" and "disconnected" callbacks
\* (mumble_bridge.py:97-99), never _on_sound_received, so in the running
\* program _rx_q stays empty; QueueSpec drives that method directly.
\* http_status only reads the gate, the bridge workers share no state with it.
Next ==
    \/ \E raises \in BOOLEAN : start_tx(raises)
    \/ stop_tx_after_tail
    \/ \E i \in 1..Len(tail_workers) : \E raises \in BOOLEAN : _worker(i, raises)
    \/ Tick
    \/ PlayOpen
    \/ PlayCheck
    \/ PlayGet
    \/ PlayClose

Spec == Init /\ [][Next]_vars

\* the same program where an unkey request is taken while its tail-hang
\* sleep still ends within the clock's range, and the hardware calls succeed
TailNext ==
    \/ start_tx(FALSE)
    \/ (now + TAIL_HANG <= MaxTime /\ stop_tx_after_tail)
    \/ \E i \in 1..Len(tail_workers) : _worker(i, FALSE)
    \/ Tick
    \/ PlayOpen
    \/ PlayCheck
    \/ PlayGet
    \/ PlayClose

TailSpec == Init /\ [][TailNext]_vars

\* time passes, a tail-hang thread whose sleep is over runs, and the
\* playback thread is scheduled again and again
FairTailSpec ==
    /\ TailSpec
    /\ WF_vars(Tick)
    /\ WF_vars(\E i \in 1..Len(tail_workers) : _worker(i, FALSE))
    /\ WF_vars(PlayOpen \/ PlayCheck \/ PlayGet \/ PlayClose)

\* the gate and the playback thread with remote audio arriving: the session
\* calls _on_sound_received (as its docstring says) while the program runs.
\* One unkey request is pending at a time and the hardware calls succeed.
PlayNext ==
    \/ start_tx(FALSE)
    \/ (tail_workers = <<>> /\ stop_tx_after_tail)
    \/ \E i \in 1..Len(tail_workers) : _worker(i, FALSE)
    \/ Tick
    \/ PlayOpen
    \/ PlayCheck
    \/ PlayGet
    \/ PlayClose
    \/ _on_sound_received

PlaySpec == Init /\ [][PlayNext]_vars

\* main(): KeyboardInterrupt, then the first part of `finally`: under tx_lock,
\* if is_transmitting, ptt.unkey() in try/except.  is_transmitting is left
\* as it is.
main_cleanup(raises) ==
    /\ bridge_log.main = "serving"
    /\ bridge_log' = [bridge_log EXCEPT !.main = "cleanup"]
    /\ ev' = [NoEvent EXCEPT !.op = "main_finally",
                             !.pre_tx = is_transmitting,
                             !.hw = IF is_transmitting THEN "unkey" ELSE "none",
                             !.raised = is_transmitting /\ raises]
    /\ UNCHANGED <<gateVars, playVars, statusVars, held_pairs, rxVars,
                   m_state, stopped, shutdown, tx_q, accum, _frame_bytes,
                   encoder_framesize, tx_pc, frame_bytes, sent, pushed,
                   next_byte, tx_stats, ping_pc, _last_ping_ts, _connected>>

\* main(): the rest of `finally`, mumble_bridge.stop()
main_stop ==
    /\ bridge_log.main = "cleanup"
    /\ ~stopped
    /\ \E raises \in BOOLEAN : Stop(raises)

PlayThread == PlayOpen \/ PlayCheck \/ PlayGet \/ PlayClose

PingWorker == PingTop \/ (\E raises \in BOOLEAN : Ping(raises)) \/ PingWait

\* the program until and through its shutdown: the gate, the playback
\* thread, the two bridge workers and main()'s exit path.  Key and unkey
\* requests come while main() serves (the HTTP thread is a daemon of it),
\* one unkey request at a time, early enough for its tail-hang sleep to end
\* within the clock's range; the hardware calls succeed.
ShutdownNext ==
    \/ (bridge_log.main = "serving" /\ start_tx(FALSE))
    \/ (/\ bridge_log.main = "serving"
        /\ tail_workers = <<>>
        /\ now + TAIL_HANG <= MaxTime
        /\ stop_tx_after_tail)
    \/ \E i \in 1..Len(tail_workers) : _worker(i, FALSE)
    \/ Tick
    \/ PlayOpen
    \/ PlayCheck
    \/ PlayGet
    \/ PlayClose
    \/ main_cleanup(FALSE)
    \/ main_stop
    \/ TxTop
    \/ TxGet
    \/ TxFlush
    \/ PingTop
    \/ Ping(FALSE)
    \/ PingWait

ShutdownSpec == Init /\ [][ShutdownNext]_vars

\* every thread is scheduled again and again, time passes, a tail-hang check
\* whose sleep is over runs, and main() goes on from its lock block to stop()
FairShutdownSpec ==
    /\ ShutdownSpec
    /\ WF_vars(PlayThread)
    /\ WF_vars(TxWorker)
    /\ WF_vars(PingWorker)
    /\ WF_vars(Tick)
    /\ WF_vars(\E i \in 1..Len(tail_workers) :
                  \E raises \in BOOLEAN : _worker(i, raises))
    /\ WF_vars(main_stop)

\* the same program with GET /status requests served concurrently
StatusNext ==
    \/ Next
    \/ StatusReadAge
    \/ StatusReadTx

StatusSpec == Init /\ [][StatusNext]_vars

(* ======================= claims about the PTT gate ==================== *)

\* C1: a tail-hang check whose unkey request was followed by a request_key()
\* before the check fired is a no-op: it does not invoke the hardware unkey
\* and it leaves the gate state as it was (KEYED).
C1_RekeyedCheckIsNoOp ==
    (ev.op = "_worker" /\ ev.rekeyed) =>
        (ev.hw = "none" /\ is_transmitting = ev.pre_tx)

\* C2: the gate leaves KEYED, and the hardware unkey is invoked, only in a
\* tail-hang check, at least TAIL_HANG after the unkey request that scheduled
\* the check and at least TAIL_HANG after the latest key request; within
\* TAIL_HANG of the latest key request the gate is KEYED.
C2_UnkeyOnlyAfterTail ==
    /\ [][((is_transmitting /\ ~is_transmitting') \/ ev'.hw = "unkey") =>
            (/\ ev'.op = "_worker"
             /\ ev'.hw = "unkey"
             /\ is_transmitting /\ ~is_transmitting'
             /\ now >= ev'.sched + TAIL_HANG
             /\ now >= last_key_time + TAIL_HANG)]_vars
    /\ []((last_key_time # 0 /\ now < last_key_time + TAIL_HANG)
            => is_transmitting)

\* C2 witness: a check fired exactly TAIL_HANG after its request and unkeyed
C2_Witness ==
    /\ ev.op = "_worker" /\ ev.hw = "unkey" /\ ~is_transmitting
    /\ now = ev.sched + TAIL_HANG

\* C3: request_key() while KEYED invokes no hardware key, starts no playback
\* thread, leaves the gate KEYED and changes last_key_time only (to now).
C3_KeyWhileKeyedIdempotent ==
    [][(is_transmitting /\ ev'.op = "start_tx") =>
        (/\ ev'.hw = "none"
         /\ ~ev'.spawned
         /\ is_transmitting'
         /\ last_key_time' = now
         /\ Len(tail_workers') = Len(tail_workers)
         /\ UNCHANGED <<now, playVars, rxVars, bridgeVars, statusVars>>)]_vars

\* C3 witness: a key request in KEYED that moved last_key_time
C3_Witness ==
    /\ ev.op = "start_tx" /\ ev.pre_tx /\ is_transmitting
    /\ last_key_time = now /\ now > 1

\* C4: a raising key() or unkey() does not block the transition: a key
\* request from IDLE ends KEYED with the playback thread up, a tail-hang
\* check whose condition holds ends IDLE, and no exception escapes.
C4_HwFailureDoesNotBlock ==
    /\ (ev.op = "start_tx" /\ ~ev.pre_tx) =>
          (/\ ev.hw = "key" /\ ~ev.escaped
           /\ is_transmitting /\ ThreadAlive(play_pc)
           /\ last_key_time = now)
    /\ (ev.op = "_worker" /\ ev.pre_tx
            /\ now - last_key_time >= TAIL_HANG) =>
          (ev.hw = "unkey" /\ ~ev.escaped /\ ~is_transmitting)
    /\ ~ev.escaped

\* C4 witness: key() raised on a request from IDLE and the gate is KEYED
C4_Witness ==
    /\ ev.op = "start_tx" /\ ~ev.pre_tx /\ ev.raised
    /\ is_transmitting /\ ev.spawned

\* C4, the other case: unkey() raised in a check and the gate is IDLE
C4_WitnessUnkey ==
    ev.op = "_worker" /\ ev.raised /\ ev.hw = "unkey" /\ ~is_transmitting

\* C5: a KEYED gate has a playback thread (one that has not ended).
C5_KeyedHasPlayback ==
    is_transmitting => ThreadAlive(play_pc)

\* C6: the (transmit state, time since last key) pair of a status reply is
\* one the gate held at a single moment: some pair (state, last_key_time) it
\* held gives the reply's state and, read at some time up to now, its age.
C6_SnapshotConsistent ==
    snapshot.valid =>
        \E p \in held_pairs :
            /\ p[1] = snapshot.tx
            /\ \E t \in 1..now : AgeOf(t, p[2]) = snapshot.last_key_age

\* C18 as claimed: after a key() that raised on an IDLE -> KEYED transition,
\* the next request_key() invokes the hardware key again.
C18_NextKeyRetriesHardware ==
    [][(key_failed /\ is_transmitting /\ ev'.op = "start_tx") =>
        ev'.hw = "key"]_vars

\* C18 as amended: a request_key() invokes the hardware key exactly when the
\* gate is IDLE; after a key() that raised the gate is KEYED, and a request
\* made while it stays KEYED makes no hardware call and leaves the failure
\* standing (it refreshes last_key_time only).
C18_KeyRetriedOnlyFromIdle ==
    /\ [](key_failed => is_transmitting)
    /\ [][ev'.op = "start_tx" => ((ev'.hw = "key") <=> ~is_transmitting)]_vars
    /\ [][(key_failed /\ is_transmitting /\ ev'.op = "start_tx") =>
            (/\ ev'.hw = "none" /\ key_failed' /\ is_transmitting'
             /\ last_key_time' = now)]_vars

\* C18 witness: a key request at a later time than the failed key(), the gate
\* still KEYED, no hardware call made
C18_Witness ==
    /\ ev.op = "start_tx" /\ ev.pre_tx /\ ev.hw = "none"
    /\ key_failed /\ is_transmitting /\ last_key_time = now /\ now > 1

\* C21: the gate's ptt.key() and ptt.unkey() calls alternate, key() first:
\* key() is called only in a step from IDLE to KEYED and unkey() only in a
\* step from KEYED to IDLE, the gate changes state only with such a call,
\* and the calls of key() outnumber those of unkey() by 1 when the gate is
\* KEYED and by 0 when it is IDLE.
C21_KeyUnkeyAlternate ==
    /\ [](key_balance = IF is_transmitting THEN 1 ELSE 0)
    /\ [][ev'.hw = "key" => (~is_transmitting /\ is_transmitting')]_vars
    /\ [][ev'.hw = "unkey" => (is_transmitting /\ ~is_transmitting')]_vars
    /\ [][is_transmitting' # is_transmitting =>
            ev'.hw = IF is_transmitting THEN "unkey" ELSE "key"]_vars

\* C21 witness: in a second keyed episode, with another check pending, a
\* tail-hang check found the gate IDLE already and made no call
C21_Witness ==
    /\ ev.op = "_worker" /\ ~ev.pre_tx /\ ev.hw = "none"
    /\ Len(tail_workers) >= 1 /\ key_balance = 0 /\ last_key_time > 1

\* an unkey request is pending that no later key request has followed
UnkeyIsLast == \E i \in 1..Len(tail_workers) : ~tail_workers[i].rekeyed

\* C22: the check of an unkey request that no later key request has followed
\* turns a KEYED gate IDLE; and when the gate is KEYED and such an unkey
\* request is pending, then, unless a later key request arrives (the gate
\* KEYED with no such unkey request left), the gate becomes IDLE and the
\* playback thread ends with its output stream closed.
C22_LastUnkeyEndsTransmission ==
    /\ [][(ev'.op = "_worker" /\ ~ev'.rekeyed /\ is_transmitting) =>
            (~is_transmitting' /\ ev'.hw = "unkey")]_vars
    /\ (is_transmitting /\ UnkeyIsLast)
       ~> (\/ (~is_transmitting /\ ~ThreadAlive(play_pc) /\ ~stream_open)
           \/ (is_transmitting /\ ~UnkeyIsLast))

\* C22 witness: the unkey request was the last one, its check has unkeyed,
\* and the playback thread has closed the stream and ended
C22_Witness ==
    /\ ev.op = "play_close" /\ ~is_transmitting /\ play_pc = "done"
    /\ ~stream_open /\ tail_workers = <<>> /\ now >= last_key_time + TAIL_HANG

\* C23: at most one playback loop, and so at most one open radio output
\* stream, exists at any time: the count of play_loop threads that have
\* started and not returned is 1 while tx_thread is alive and 0 otherwise,
\* the output stream is open only inside that thread, and a thread is
\* started only when none is alive and no stream is open.
C23_OnePlaybackLoop ==
    /\ [](play_loops = IF ThreadAlive(play_pc) THEN 1 ELSE 0)
    /\ [](stream_open => play_pc \in {"check", "get", "closing"})
    /\ [][ev'.spawned => (play_loops = 0 /\ ~stream_open)]_vars

\* a key request that keyed the radio while the previous loop had not yet
\* returned: no second thread was started
C23_Witness ==
    /\ ev.op = "start_tx" /\ ev.hw = "key" /\ ~ev.spawned
    /\ play_loops = 1 /\ stream_open /\ Len(tail_workers) >= 1

\* the program driven by one control page: the gate's routes are called for
\* the page's requests, in the order they were sent
http_ptt_on == posts # <<>> /\ Head(posts) = "on" /\ start_tx(FALSE)
http_ptt_off == posts # <<>> /\ Head(posts) = "off" /\ stop_tx_after_tail

PageNext ==
    \/ MouseDown
    \/ MouseUp
    \/ MouseLeave
    \/ KeyDown
    \/ KeyUp
    \/ PageTick
    \/ http_ptt_on
    \/ http_ptt_off
    \/ \E i \in 1..Len(tail_workers) : _worker(i, FALSE)
    \/ Tick

PageSpec == Init /\ [][PageNext]_vars

\* a tail-hang thread that will unkey the gate: its request came no earlier
\* than the last key request
WillUnkey == \E i \in 1..Len(tail_workers) : tail_workers[i].sched >= last_key_time

\* C24: in the control page every release of the PTT button or of the space
\* bar that follows a press sends POST /ptt/off, whatever the time between
\* the press and the release; so, once the control is released and the
\* page's requests are served, a KEYED gate always has a tail-hang check
\* pending that will set it IDLE.
C24_ReleaseSendsOff ==
    /\ [][ev'.release => ev'.post = "off"]_vars
    /\ []((is_transmitting /\ ~down /\ posts = <<>>) => WillUnkey)

(* ===================== claims about the MumbleBridge ================== *)
Concat(frames) ==
    LET RECURSIVE cat(_)
        cat(i) == IF i > Len(frames) THEN <<>> ELSE frames[i] \o cat(i + 1)
    IN  cat(1)

TxRunning == tx_pc \in {"top", "get"}

\* C7: while the TX worker runs and no shutdown is requested, once the frame
\* size is known every complete frame held in the accumulator is eventually
\* dispatched to the session.
C7_KnownFramesAreFlushed ==
    (TxRunning /\ ~shutdown /\ _frame_bytes # 0
        /\ Len(accum) >= _frame_bytes)
    ~> (shutdown \/ Len(accum) < _frame_bytes)

\* C8: while the frame size is unknown nothing is dispatched to the session:
\* every add_sound call happens with the encoder's frame size known.
C8_NoDispatchWhileUnknown ==
    /\ [][Len(sent') > Len(sent) =>
            (_frame_bytes # 0 /\ encoder_framesize # 0)]_vars
    /\ []((_frame_bytes = 0 \/ encoder_framesize = 0) => sent = <<>>)

\* C8 witness: two chunks were accumulated with the frame size unknown
C8_Witness ==
    /\ _frame_bytes = 0 /\ encoder_framesize = 0
    /\ tx_stats.deq >= 2 /\ Len(accum) >= 2 /\ sent = <<>>

\* C9: the frames taken out of the accumulator, each exactly one frame long,
\* followed by the remainder, are the pushed bytes in order.
C9_BytesConserved ==
    /\ Concat(sent) \o accum = pushed
    /\ \A i \in 1..Len(sent) : Len(sent[i]) = _frame_bytes /\ _frame_bytes > 0
    /\ \A i \in 1..Len(pushed) : \A j \in 1..Len(pushed) :
          i < j => pushed[i] < pushed[j]

\* C9 witness: several chunks went in, two frames came out, a remainder is left
C9_Witness ==
    /\ tx_stats.deq >= 2 /\ Len(sent) >= 2 /\ accum # <<>>
    /\ tx_pc = "exited"

\* C10: neither queue ever holds more than its capacity, and with no dequeue
\* so far the drop events number the enqueues beyond the capacity.
C10_QueuesBounded ==
    /\ Len(tx_q) <= QueueMaxsize
    /\ Len(rx_q) <= QueueMaxsize
    /\ (tx_stats.deq = 0 /\ tx_stats.enq >= QueueMaxsize) =>
          tx_stats.drops = tx_stats.enq - QueueMaxsize
    /\ (received = <<>> /\ rx_stats.enq >= QueueMaxsize) =>
          rx_stats.drops = rx_stats.enq - QueueMaxsize

\* the frames of s that the session delivered
SessionFrames(s) == SelectSeq(s, LAMBDA f : f[1] < 0)

\* C11: every frame the session delivered while the inbound queue had room
\* is returned by get_received() or still buffered, exactly once and in
\* arrival order; so get_received() finds the queue empty only when every
\* such frame has been returned.
C11_DeliveredFramesAreReturned ==
    SessionFrames(received \o rx_q) = delivered

\* C10 witness: both queues are full and each has dropped a frame
C10_Witness ==
    /\ tx_stats.deq = 0 /\ tx_stats.enq > QueueMaxsize /\ tx_stats.drops >= 1
    /\ received = <<>> /\ rx_stats.enq > QueueMaxsize /\ rx_stats.drops >= 1
    /\ Len(tx_q) = QueueMaxsize /\ Len(rx_q) = QueueMaxsize

Increasing(s) == \A i \in 1..Len(s) : \A j \in 1..Len(s) : i < j => s[i] < s[j]

\* the frame numbers of a sequence of link -> radio frames
FrameIds(s) == [i \in 1..Len(s) |-> s[i][1]]

\* C20: an enqueue on a full queue returns having left the queue as it was
\* and counted one drop; what was dequeued followed by what is queued is in
\* arrival order, and nothing dropped is ever among it.
C20_FullQueueDropsNewest ==
    /\ [][(Len(tx_q) >= QueueMaxsize /\ tx_stats'.enq # tx_stats.enq) =>
            (/\ tx_q' = tx_q
             /\ tx_stats'.enq = tx_stats.enq + 1
             /\ tx_stats'.drops = tx_stats.drops + 1)]_vars
    /\ [][(Len(rx_q) >= QueueMaxsize /\ rx_stats'.enq # rx_stats.enq) =>
            (/\ rx_q' = rx_q
             /\ rx_stats'.enq = rx_stats.enq + 1
             /\ rx_stats'.drops = rx_stats.drops + 1)]_vars
    /\ [](/\ Increasing(pushed \o Concat(tx_q))
          /\ Range(pushed \o Concat(tx_q)) \cap tx_stats.lost = {}
          /\ Increasing(FrameIds(received \o rx_q))
          /\ Range(FrameIds(received \o rx_q)) \cap rx_stats.lost = {})

\* C20 witness: each queue dropped a frame when full, and afterwards as many
\* frames as the queue holds were dequeued from it
C20_Witness ==
    /\ tx_stats.lost # {} /\ tx_stats.deq >= QueueMaxsize
    /\ rx_stats.lost # {} /\ Len(received) >= QueueMaxsize

(* ================ claims about the session's lifecycle ================ *)
PingRunning == ping_pc \in {"top", "ping", "wait"}

\* C12: the connected flag is TRUE exactly when the latest lifecycle
\* notification was "connected" (so a reconnection after a disconnection
\* restores it); a notification changes nothing of the workers, and while
\* the started bridge is not shut down both workers of its one start() run.
C12_ConnectedFollowsNotices ==
    /\ [](_connected = (bridge_log.notice = "connected"))
    /\ []((m_state = "ready" /\ ~shutdown) =>
            (TxRunning /\ PingRunning /\ bridge_log.spawned = 1))
    /\ [][(bridge_log'.notice # bridge_log.notice \/ _connected' # _connected)
            => (/\ UNCHANGED <<tx_pc, ping_pc, shutdown, stopped, m_state>>
                /\ bridge_log'.spawned = bridge_log.spawned)]_vars

\* C12 witness: connected again after an outage, the keepalive thread has
\* pinged and both workers are the ones start() created
C12_Witness ==
    /\ bridge_log.dropped /\ bridge_log.notice = "connected" /\ _connected
    /\ bridge_log.ping = "ok" /\ _last_ping_ts = now /\ now > 1
    /\ ~shutdown /\ TxRunning /\ PingRunning /\ bridge_log.spawned = 1

\* C13: a raising ping never ends the keepalive thread: the thread ends only
\* on shutdown, after a ping (failed or not) it waits and then pings again
\* unless shutdown is set, and _last_ping_ts changes only in a successful
\* ping, to the time of that ping.
C13_FailedPingDoesNotStop ==
    /\ [](ping_pc # "crashed" /\ (ping_pc = "exited" => shutdown))
    /\ [][(ping_pc = "ping" /\ ping_pc' # "ping") =>
            (/\ ping_pc' = "wait"
             /\ _last_ping_ts' = IF bridge_log'.ping = "ok"
                                    THEN now ELSE _last_ping_ts)]_vars
    /\ [][(ping_pc = "wait" /\ ping_pc' # "wait") => ping_pc' = "top"]_vars
    /\ [][(ping_pc = "top" /\ ping_pc' # "top") =>
            ping_pc' = IF shutdown THEN "exited" ELSE "ping"]_vars
    /\ [][_last_ping_ts' # _last_ping_ts =>
            (ping_pc = "ping" /\ bridge_log'.ping = "ok")]_vars

\* C13 witness: a ping failed at a later time than the last successful one
\* and the thread is waiting for its next round
C13_Witness ==
    /\ bridge_log.ping = "failed" /\ ping_pc = "wait" /\ ~shutdown
    /\ _last_ping_ts # 0 /\ _last_ping_ts < now

\* C13, the retry: a successful ping after a failed one
C13_WitnessRetry ==
    /\ bridge_log.failed /\ bridge_log.ping = "ok" /\ ping_pc = "wait"
    /\ _last_ping_ts = now

\* C14: after a rejected connection start() has raised, no worker thread
\* exists and no channel lookup or join was made.
C14_RejectedStartAborts ==
    m_state = "rejected" =>
        (/\ bridge_log.start = "raised"
         /\ tx_pc = "none" /\ ping_pc = "none" /\ bridge_log.spawned = 0
         /\ bridge_log.join = "none")

\* C14 witness: the session rejected the connection
C14_Witness ==
    m_state = "rejected" /\ bridge_log.start = "raised" /\ bridge_log.stops = 0

\* C15: every stop(), whatever the state of the bridge, sets the shutdown
\* flag, returns without raising and without waiting for a worker to end,
\* and has called the session's stop().
C15_StopIsSafe ==
    /\ [](~bridge_log.escaped /\ bridge_log.released = bridge_log.stops)
    /\ [][bridge_log'.stops # bridge_log.stops =>
            (/\ bridge_log'.stops = bridge_log.stops + 1
             /\ shutdown' /\ stopped'
             /\ UNCHANGED <<tx_pc, ping_pc, m_state>>)]_vars

\* C15 witness: stop() called twice after a start() that failed
C15_Witness ==
    /\ m_state = "rejected" /\ bridge_log.stops >= 2
    /\ bridge_log.waited = {} /\ shutdown

\* C15, after a successful start(): stop() returned with both workers alive
C15_WitnessStarted ==
    /\ m_state = "ready" /\ bridge_log.stops >= 1
    /\ bridge_log.waited = {"tx", "ping"} /\ TxRunning /\ PingRunning

\* C15, before any start()
C15_WitnessNew ==
    m_state = "new" /\ bridge_log.stops >= 1 /\ shutdown

(* ===================== claims about the playback loop ================= *)
\* C17: an output period that dequeued a frame has written that frame (once),
\* has set the TX level from it and goes on to the next period; and the loop
\* leaves for its `finally` only from the gate test, with the gate IDLE.
C17_FramePlayedAndLoopContinues ==
    /\ []((ev.op = "play_get" /\ ev.frame) =>
            (/\ ev.writes = 1 /\ last_write = "frame"
             /\ ev.level_set
             /\ ~ev.escaped /\ play_pc = "check"))
    /\ [][(play_pc # "closing" /\ play_pc' = "closing") =>
            (play_pc = "check" /\ ~is_transmitting)]_vars

\* C19: an output period in which get_received returned nothing has written
\* one silence frame and set the TX level to the floor, and goes on; every
\* output period, with or without a frame, has written exactly once.
C19_SilenceFill ==
    /\ (ev.op = "play_get" /\ ~ev.frame) =>
          (/\ ev.writes = 1 /\ last_write = "silence"
           /\ ev.level_set /\ current_tx_dbfs = FLOOR_DBFS
           /\ ~ev.escaped /\ play_pc = "check")
    /\ ev.op = "play_get" => ev.writes = 1

\* C19 witness: a silence period right after frames had been queued and one
\* was played by an earlier playback thread
C19_Witness ==
    /\ ev.op = "play_get" /\ ~ev.frame /\ last_write = "silence"
    /\ Len(received) >= 1 /\ rx_stats.enq >= 1 /\ rx_q = <<>>

\* C19, the other case: a period with a frame wrote once
C19_WitnessFrame ==
    ev.op = "play_get" /\ ev.frame /\ ev.writes = 1 /\ last_write = "frame"

(* ========================= claims about shutdown ====================== *)
\* C16: once the bridge's shutdown flag is set, the TX worker, the ping
\* worker and the playback thread all eventually end.
C16_ShutdownEndsEveryTask ==
    shutdown ~> (/\ tx_pc \in {"exited", "crashed"}
                 /\ ping_pc = "exited"
                 /\ ~ThreadAlive(play_pc))

====
